---- MODULE Spec2Model ----
(***************************************************************************)
(* Quotation / document generation subsystem of asp-cranes-structured:     *)
(* template resolution in the delivery endpoints, the template repair      *)
(* pass, and the PDF service.                                              *)
(*                                                                         *)
(* Text is a sequence of one-character strings, so that trimming,          *)
(* unwrapping and JSON validation are computed character by character.     *)
(***************************************************************************)
EXTENDS Integers, Sequences, FiniteSets, TLC

VARIABLES
    store,      \* enhanced_templates: id -> row
    colType,    \* how the driver returns the four structured columns
    clock,      \* the database's NOW()
    sysConfig,  \* system_config row 'defaultQuotationTemplate' (or NoId)
    loadMap,    \* what EnhancedTemplateBuilder.loadTemplate does for each id
    resp,       \* the last HTTP response of the delivery layer
    rp,         \* the repair handler's position and locals
    runs,       \* finished repair passes, oldest first
    fx,         \* one application of fixColumn
    pdf,        \* the PdfService singleton and its callers
    bld,        \* one quotation record and the rendering contexts built from it
    fq,         \* one quotation row and what getQuotationWithDetails makes of it
    ed          \* the template editor component

vars == <<store, colType, clock, sysConfig, loadMap, resp, rp, runs, fx, pdf, bld, fq, ed>>

-----------------------------------------------------------------------------
(* Bounds of the model *)

MaxLen == 4        \* longest raw text enumerated exhaustively
MaxPasses == 2     \* passes one column is taken through
MaxRuns == 2       \* repair requests served
MaxLaunches == 2   \* engine instances ever launched
MaxPages == 2      \* pages open at once

-----------------------------------------------------------------------------
(* Characters and text *)

\* white space JSON allows between tokens
Ws == {" ", "\t", "\n", "\r"}

\* white space String.prototype.trim removes: JSON's, and more (NBSP stands for the rest)
TrimWs == Ws \cup {"NBSP"}

Digits == {"0", "1", "2", "3", "4", "5", "6", "7", "8", "9"}

RECURSIVE TextsUpTo(_)
TextsUpTo(n) ==
    IF n = 0 THEN {<<>>}
    ELSE LET shorter == TextsUpTo(n - 1)
         IN shorter \cup {Append(t, c) : t \in {u \in shorter : Len(u) = n - 1}, c \in {"[", "]", "{", "}", "\"", "\\", " ", "1"}}

At(s, i) == IF i >= 1 /\ i <= Len(s) THEN s[i] ELSE "EOF"

\* String.prototype.trim
RECURSIVE TrimLeft(_)
TrimLeft(s) == IF s # <<>> /\ Head(s) \in TrimWs THEN TrimLeft(Tail(s)) ELSE s

RECURSIVE TrimRight(_)
TrimRight(s) ==
    IF s # <<>> /\ s[Len(s)] \in TrimWs THEN TrimRight(SubSeq(s, 1, Len(s) - 1)) ELSE s

Trim(s) == TrimRight(TrimLeft(s))

StartsWith(s, p) == Len(s) >= Len(p) /\ SubSeq(s, 1, Len(p)) = p

EndsWith(s, p) == Len(s) >= Len(p) /\ SubSeq(s, Len(s) - Len(p) + 1, Len(s)) = p

\* s.replace(/\\"/g, '"'): every backslash-quote pair, scanned left to right
RECURSIVE ReplaceEscQuote(_)
ReplaceEscQuote(s) ==
    IF s = <<>> THEN <<>>
    ELSE IF Len(s) >= 2 /\ s[1] = "\\" /\ s[2] = "\""
         THEN <<"\"">> \o ReplaceEscQuote(SubSeq(s, 3, Len(s)))
         ELSE <<s[1]>> \o ReplaceEscQuote(Tail(s))

-----------------------------------------------------------------------------
(* JSON.parse as a recogniser.  Each Parse* operator takes the text and   *)
(* the index of the first character and returns the index just after the  *)
(* parsed item, or 0 when the text is not JSON there.                     *)

RECURSIVE SkipWs(_, _)
SkipWs(s, i) == IF At(s, i) \in Ws THEN SkipWs(s, i + 1) ELSE i

RECURSIVE StrEnd(_, _)
StrEnd(s, j) ==
    IF j > Len(s) THEN 0
    ELSE IF s[j] = "\"" THEN j + 1
    ELSE IF s[j] = "\\"
         THEN IF At(s, j + 1) \in {"\"", "\\", "/", "b", "f", "n", "r", "t"} THEN StrEnd(s, j + 2) ELSE 0
    ELSE IF s[j] \in {"\t", "\n", "\r"} THEN 0
    ELSE StrEnd(s, j + 1)

ParseString(s, i) == IF At(s, i) = "\"" THEN StrEnd(s, i + 1) ELSE 0

RECURSIVE DigitsEnd(_, _)
DigitsEnd(s, j) == IF At(s, j) \in Digits THEN DigitsEnd(s, j + 1) ELSE j

ParseNumber(s, i) ==
    IF At(s, i) = "0" THEN i + 1
    ELSE IF At(s, i) \in Digits THEN DigitsEnd(s, i + 1)
    ELSE 0

ParseLiteral(s, i, word) ==
    IF i + Len(word) - 1 <= Len(s) /\ SubSeq(s, i, i + Len(word) - 1) = word
    THEN i + Len(word) ELSE 0

RECURSIVE ParseValue(_, _)
RECURSIVE ParseElems(_, _)
RECURSIVE ParseMembers(_, _)

ParseValue(s, i) ==
    LET c == At(s, i) IN
    IF c = "[" THEN
        LET j == SkipWs(s, i + 1)
        IN IF At(s, j) = "]" THEN j + 1 ELSE ParseElems(s, j)
    ELSE IF c = "{" THEN
        LET j == SkipWs(s, i + 1)
        IN IF At(s, j) = "}" THEN j + 1 ELSE ParseMembers(s, j)
    ELSE IF c = "\"" THEN ParseString(s, i)
    ELSE IF c \in Digits THEN ParseNumber(s, i)
    ELSE IF c = "n" THEN ParseLiteral(s, i, <<"n", "u", "l", "l">>)
    ELSE IF c = "t" THEN ParseLiteral(s, i, <<"t", "r", "u", "e">>)
    ELSE IF c = "f" THEN ParseLiteral(s, i, <<"f", "a", "l", "s", "e">>)
    ELSE 0

ParseElems(s, j) ==
    LET e == ParseValue(s, j) IN
    IF e = 0 THEN 0
    ELSE LET k == SkipWs(s, e) IN
         IF At(s, k) = "," THEN ParseElems(s, SkipWs(s, k + 1))
         ELSE IF At(s, k) = "]" THEN k + 1
         ELSE 0

ParseMembers(s, j) ==
    LET ke == ParseString(s, j) IN
    IF ke = 0 THEN 0
    ELSE LET c == SkipWs(s, ke) IN
         IF At(s, c) # ":" THEN 0
         ELSE LET e == ParseValue(s, SkipWs(s, c + 1)) IN
              IF e = 0 THEN 0
              ELSE LET k == SkipWs(s, e) IN
                   IF At(s, k) = "," THEN ParseMembers(s, SkipWs(s, k + 1))
                   ELSE IF At(s, k) = "}" THEN k + 1
                   ELSE 0

\* JSON.parse(s) does not throw
ValidJson(s) ==
    LET e == ParseValue(s, SkipWs(s, 1))
    IN e # 0 /\ SkipWs(s, e) = Len(s) + 1

\* typeof / shape of JSON.parse(s) for valid s
JsonKind(s) ==
    LET c == At(s, SkipWs(s, 1)) IN
    IF c = "[" THEN "array"
    ELSE IF c = "{" THEN "object"
    ELSE IF c = "\"" THEN "string"
    ELSE IF c \in Digits THEN "number"
    ELSE IF c = "n" THEN "null"
    ELSE "boolean"

\* JSON.stringify(JSON.parse(s)) for valid s: insignificant white space is
\* dropped and an escaped solidus is written plainly
RECURSIVE Canon(_, _)
Canon(s, inStr) ==
    IF s = <<>> THEN <<>>
    ELSE IF inStr THEN
        IF s[1] = "\\" /\ Len(s) >= 2
        THEN (IF s[2] = "/" THEN <<"/">> ELSE <<s[1], s[2]>>) \o Canon(SubSeq(s, 3, Len(s)), TRUE)
        ELSE <<s[1]>> \o Canon(Tail(s), s[1] # "\"")
    ELSE IF s[1] \in Ws THEN Canon(Tail(s), FALSE)
    ELSE <<s[1]>> \o Canon(Tail(s), s[1] = "\"")

\* the characters of a JSON string literal's value (s is the text between the quotes)
RECURSIVE Unescape(_)
Unescape(s) ==
    IF s = <<>> THEN <<>>
    ELSE IF s[1] = "\\" /\ Len(s) >= 2
         THEN <<(CASE s[2] = "n" -> "\n" [] s[2] = "t" -> "\t" [] s[2] = "r" -> "\r"
                   [] s[2] = "b" -> "BS" [] s[2] = "f" -> "FF" [] OTHER -> s[2])>>
              \o Unescape(SubSeq(s, 3, Len(s)))
         ELSE <<s[1]>> \o Unescape(Tail(s))

\* JSON.stringify(s) of a string s: quotes and backslashes are escaped
Stringify(s) ==
    LET Escape(c) == IF c \in {"\"", "\\"} THEN <<"\\", c>> ELSE <<c>>
        Body[i \in 0..Len(s)] == IF i = 0 THEN <<>> ELSE Body[i - 1] \o Escape(s[i])
    IN <<"\"">> \o Body[Len(s)] \o <<"\"">>

-----------------------------------------------------------------------------
(* Column values as the database driver hands them to the handler *)

Null == [k |-> "null", s |-> <<>>]
Str(s) == [k |-> "str", s |-> s]
Obj(s) == [k |-> "obj", s |-> s]      \* a decoded array or object; s is its JSON.stringify text
Num(s) == [k |-> "num", s |-> s]
Bool(s) == [k |-> "bool", s |-> s]

EmptyArray == Obj(<<"[", "]">>)
EmptyObject == Obj(<<"{", "}">>)

JsonStringify(v) == v.s

\* JSON.parse of a valid text, as a driver value
Decode(text) ==
    LET t == Trim(text)
        kind == JsonKind(t)
    IN CASE kind \in {"array", "object"} -> Obj(Canon(t, FALSE))
         [] kind = "number" -> Num(t)
         [] kind = "string" -> Str(Unescape(SubSeq(t, 2, Len(t) - 1)))
         [] kind = "null" -> Null
         [] OTHER -> Bool(t)

ObjectObjectText ==
    <<"[", "o", "b", "j", "e", "c", "t", " ", "O", "b", "j", "e", "c", "t", "]">>

\* trimmed.startsWith('"{') && trimmed.endsWith('}"') || the same with brackets
IsWrapped(trimmed) ==
    \/ StartsWith(trimmed, <<"\"", "{">>) /\ EndsWith(trimmed, <<"}", "\"">>)
    \/ StartsWith(trimmed, <<"\"", "[">>) /\ EndsWith(trimmed, <<"]", "\"">>)

\* trimmed.slice(1, -1).replace(/\\"/g, '"')
Unwrap(trimmed) == ReplaceEscQuote(SubSeq(trimmed, 2, Len(trimmed) - 1))

fixColumn_ObjectFallback(raw, fallback) ==
    IF raw.k = "null" THEN JsonStringify(EmptyObject)
    ELSE IF raw.k = "obj" THEN JsonStringify(raw)
    ELSE IF raw.k # "str" THEN JsonStringify(EmptyObject)
    ELSE LET trimmed == Trim(raw.s) IN
         IF trimmed = <<>> THEN JsonStringify(EmptyObject)
         ELSE IF trimmed = ObjectObjectText THEN JsonStringify(EmptyObject)
         ELSE IF IsWrapped(trimmed)
              THEN (IF ValidJson(Unwrap(trimmed)) THEN Unwrap(trimmed) ELSE JsonStringify(EmptyObject))
              ELSE (IF ValidJson(trimmed) THEN trimmed ELSE JsonStringify(EmptyObject))

\* fixColumn(raw, fallback): the text the repair pass will store for a column
fixColumn(raw, fallback) ==
    IF raw.k = "null" THEN JsonStringify(fallback)
    ELSE IF raw.k = "obj" THEN JsonStringify(raw)
    ELSE IF raw.k # "str" THEN JsonStringify(fallback)
    ELSE LET trimmed == Trim(raw.s) IN
         IF trimmed = <<>> THEN JsonStringify(fallback)
         ELSE IF trimmed = ObjectObjectText THEN JsonStringify(fallback)
         ELSE IF IsWrapped(trimmed)
              THEN (IF ValidJson(Unwrap(trimmed)) THEN Unwrap(trimmed) ELSE JsonStringify(fallback))
              ELSE (IF ValidJson(trimmed) THEN trimmed ELSE JsonStringify(fallback))

\* fixed !== row.column, with fixed a string
Differs(fixed, raw) == raw.k # "str" \/ raw.s # fixed

\* what the column holds, as read back, after the UPDATE binds the text `fixed`
WriteCol(ct, fixed) == IF ct = "text" THEN Str(fixed) ELSE Decode(fixed)

-----------------------------------------------------------------------------
(* The enhanced_templates table *)

TplIds == {"t1", "t2"}
NoId == "none"

Columns == {"elements", "layout", "settings", "branding"}

\* the fallback the handler passes to fixColumn for each column
FallbackOf(col) == IF col = "elements" THEN EmptyArray ELSE EmptyObject

Q == "\""

\* well-formed containers, as the text JSON.stringify gives for them; the
\* last two hold a string with a quote and a string with a backslash
Containers == {
    <<"[", "]">>,
    <<"{", "}">>,
    <<"[", "1", "]">>,
    <<"[", Q, "a", Q, "]">>,
    <<"{", Q, "a", Q, ":", "1", "}">>,
    <<"[", Q, "\\", Q, Q, "]">>,
    <<"[", Q, "\\", "\\", Q, "]">> }

\* raw texts of interest that are longer than MaxLen: malformed shapes, and
\* the containers stringified twice (their text stringified once more)
SampleTexts == {Stringify(x) : x \in Containers} \cup {
    ObjectObjectText,
    <<" ">> \o ObjectObjectText,
    <<Q, "[", Q, Q, "]", Q>>,
    <<Q, "[", "\\", Q, "\\", Q, "]", Q>>,
    <<Q, "{", "\\", Q, "a", "\\", Q, ":", "1", "}", Q>>,
    <<Q, "{", "b", "a", "d", "}", Q>>,
    <<"{", Q, "a", Q, ":", "[", "1", ",", " ", "1", "]", "}">>,
    <<"n", "u", "l", "l">>,
    <<"NBSP", "{", Q, "a", Q, ":", "1", "}">>,
    <<"[", "1", ",", "]">> }

-----------------------------------------------------------------------------
(* One column through successive repair passes: fixColumn, the comparison  *)
(* with the value read, and the write-back.                                *)

FixIdle ==
    [ct |-> "text", col |-> "elements", orig |-> Null, raw |-> Null, n |-> 0,
     out |-> <<>>, mutated |-> FALSE]

FixPass ==
    /\ fx.n < MaxPasses
    /\ LET fixed == fixColumn(fx.raw, FallbackOf(fx.col))
           mut == Differs(fixed, fx.raw)
       IN fx' = [fx EXCEPT !.out = fixed, !.mutated = mut, !.n = fx.n + 1,
                           !.raw = IF mut THEN WriteCol(fx.ct, fixed) ELSE fx.raw]
    /\ UNCHANGED <<store, colType, clock, sysConfig, loadMap, resp, rp, runs, pdf, bld, fq, ed>>

-----------------------------------------------------------------------------
(* POST /enhanced/maintenance/repair *)

Row(def, act, upd, el, la, se, br) ==
    [present |-> TRUE, is_default |-> def, is_active |-> act, updated_at |-> upd,
     elements |-> el, layout |-> la, settings |-> se, branding |-> br]

AbsentRow ==
    [present |-> FALSE, is_default |-> FALSE, is_active |-> FALSE, updated_at |-> 0,
     elements |-> Null, layout |-> Null, settings |-> Null, branding |-> Null]

Present == {id \in TplIds : store[id].present}

\* every order in which a SELECT without ORDER BY can return the rows
Orders(S) ==
    {o \in [1..Cardinality(S) -> S] : \A i, j \in 1..Cardinality(S) : i # j => o[i] # o[j]}

\* SELECT id, elements, layout, settings, branding FROM enhanced_templates
SelectRow(id) ==
    [id |-> id, elements |-> store[id].elements, layout |-> store[id].layout,
     settings |-> store[id].settings, branding |-> store[id].branding]

\* pre, post, saved, defaults: what the table held, which rows an editor saved
\* and which rows the default query would return, around a pass
IsDefaultRow(id) == store[id].present /\ store[id].is_default /\ store[id].is_active

\* WHERE is_default = true AND is_active = true ORDER BY updated_at DESC LIMIT 1
DefaultRowIds ==
    {id \in TplIds : IsDefaultRow(id)
        /\ \A j \in TplIds : IsDefaultRow(j) => store[j].updated_at <= store[id].updated_at}

RepairIdle ==
    [pc |-> "idle", rows |-> <<>>, i |-> 1, report |-> <<>>, updated |-> {}, pre |-> <<>>,
     saved |-> {}, defaults |-> {}]

RepairBegin ==
    /\ rp.pc = "idle"
    /\ Len(runs) < MaxRuns
    /\ \E o \in Orders(Present) :
         rp' = [pc |-> "loop", rows |-> [n \in 1..Len(o) |-> SelectRow(o[n])], i |-> 1,
                report |-> <<>>, updated |-> {}, pre |-> store, saved |-> {},
                defaults |-> DefaultRowIds]
    /\ UNCHANGED <<store, colType, clock, runs, sysConfig, loadMap, resp, fx, pdf, bld, fq, ed>>

\* the fixed text of each column of a row read by the SELECT
Fixed(row) == [c \in Columns |-> fixColumn(row[c], FallbackOf(c))]

\* mutated: fixedX !== row.X for each column
Mutated(row) == [c \in Columns |-> Differs(Fixed(row)[c], row[c])]

\* UPDATE enhanced_templates SET elements=$2, layout=$3, settings=$4, branding=$5,
\* updated_at=NOW() WHERE id=$1
UpdateRow(st, row) ==
    [st EXCEPT ![row.id] =
        [@ EXCEPT !.elements = WriteCol(colType, Fixed(row).elements),
                  !.layout = WriteCol(colType, Fixed(row).layout),
                  !.settings = WriteCol(colType, Fixed(row).settings),
                  !.branding = WriteCol(colType, Fixed(row).branding),
                  !.updated_at = clock]]

\* one iteration of the loop over result.rows
RepairRow ==
    /\ rp.pc = "loop"
    /\ rp.i <= Len(rp.rows)
    /\ LET row == rp.rows[rp.i]
           any == \E c \in Columns : Mutated(row)[c]   \* Object.values(mutated).some(v => v)
       IN /\ store' = IF any THEN UpdateRow(store, row) ELSE store
          /\ clock' = IF any THEN clock + 1 ELSE clock
          /\ rp' = [rp EXCEPT !.i = rp.i + 1,
                              !.updated = IF any THEN rp.updated \cup {row.id} ELSE rp.updated,
                              !.report = Append(rp.report,
                                  [id |-> row.id, mutated |-> Mutated(row), changed |-> any])]
    /\ UNCHANGED <<colType, runs, sysConfig, loadMap, resp, fx, pdf, bld, fq, ed>>

\* repaired: report.filter(r => r.changed).length
Repaired(report) == Cardinality({n \in 1..Len(report) : report[n].changed})

\* res.json({ success: true, repaired, total, report })
RepairFinish ==
    /\ rp.pc = "loop"
    /\ rp.i > Len(rp.rows)
    /\ runs' = Append(runs, [status |-> 200, report |-> rp.report, updated |-> rp.updated,
                             repaired |-> Repaired(rp.report), total |-> Len(rp.report),
                             pre |-> rp.pre, post |-> store, saved |-> rp.saved,
                             defaultsPre |-> rp.defaults, defaultsPost |-> DefaultRowIds])
    /\ rp' = RepairIdle
    /\ UNCHANGED <<store, colType, clock, sysConfig, loadMap, resp, fx, pdf, bld, fq, ed>>

\* the pass stops before row rp.i is written: a query error (caught, 500) or a crash
RepairAbort ==
    /\ rp.pc = "loop"
    /\ rp.i <= Len(rp.rows)
    /\ runs' = Append(runs, [status |-> 500, report |-> rp.report, updated |-> rp.updated,
                             repaired |-> Repaired(rp.report), total |-> Len(rp.report),
                             pre |-> rp.pre, post |-> store, saved |-> rp.saved,
                             defaultsPre |-> rp.defaults, defaultsPost |-> DefaultRowIds])
    /\ rp' = RepairIdle
    /\ UNCHANGED <<store, colType, clock, sysConfig, loadMap, resp, fx, pdf, bld, fq, ed>>

\* saveTemplate of the editor commits while the repair loop runs: a full
\* replace of a row the loop has read and not yet reached
EditorSave ==
    /\ rp.pc = "loop"
    /\ \E n \in rp.i..Len(rp.rows) :
         LET id == rp.rows[n].id
             elements == <<"[", Q, "e", Q, "]">>
             object == <<"{", Q, "e", Q, ":", "1", "}">>
         IN /\ id \notin rp.saved
            /\ store' = [store EXCEPT ![id] =
                             [@ EXCEPT !.elements = WriteCol(colType, elements),
                                       !.layout = WriteCol(colType, object),
                                       !.settings = WriteCol(colType, object),
                                       !.branding = WriteCol(colType, object),
                                       !.updated_at = clock]]
            /\ rp' = [rp EXCEPT !.saved = rp.saved \cup {id}]
    /\ clock' = clock + 1
    /\ UNCHANGED <<colType, runs, sysConfig, loadMap, resp, fx, pdf, bld, fq, ed>>

-----------------------------------------------------------------------------
(* Template resolution in the delivery endpoints *)

AbsentId == "tX"                 \* an id no row carries
ReqIds == TplIds \cup {AbsentId}

NoTemplate == [id |-> NoId, kind |-> "none", elements |-> <<>>]

\* the elements a loaded template carries, as far as emptiness goes
LoadedElements(id) ==
    IF id \in TplIds /\ store[id].present /\ store[id].elements.k = "str"
       /\ ValidJson(store[id].elements.s) /\ JsonKind(store[id].elements.s) = "array"
       /\ Canon(store[id].elements.s, FALSE) # <<"[", "]">>
    THEN <<"element">> ELSE <<>>

Stored(id) == [id |-> id, kind |-> "stored", elements |-> LoadedElements(id)]

WrongId(id) == IF id = "t1" THEN "t2" ELSE "t1"

LoadOutcome(id) == IF id \in DOMAIN loadMap THEN loadMap[id] ELSE loadMap[AbsentId]

\* await templateBuilder.loadTemplate(id); template = templateBuilder.template
LoadTemplate(id) ==
    CASE LoadOutcome(id) = "ok" -> [threw |-> FALSE, template |-> Stored(id)]
      [] LoadOutcome(id) = "wrong" -> [threw |-> FALSE, template |-> Stored(WrongId(id))]
      [] OTHER -> [threw |-> TRUE, template |-> NoTemplate]

\* templateBuilder.createTemplate(...).addElement(...) eight times
BuiltinTemplate ==
    [id |-> "generated", kind |-> "builtin",
     elements |-> <<"header", "company_info", "client_info", "quotation_info",
                    "items_table", "totals", "terms", "signature">>]

EmergencyTemplate ==
    [id |-> "emergency-default", kind |-> "emergency",
     elements |-> <<"header", "company_info", "client_info", "items_table", "totals">>]

createDefaultQuotationTemplate(builderOk) ==
    IF builderOk THEN BuiltinTemplate ELSE EmergencyTemplate

DefaultPicks == IF DefaultRowIds = {} THEN {NoId} ELSE DefaultRowIds

getDefaultTemplate_Propagate(connOk, queryOk, builderOk, pick) ==
    IF ~connOk THEN NoTemplate
    ELSE IF ~queryOk THEN NoTemplate
    ELSE IF pick # NoId
         THEN (IF LoadTemplate(pick).threw THEN NoTemplate ELSE LoadTemplate(pick).template)
         ELSE createDefaultQuotationTemplate(builderOk)

\* getDefaultTemplate(templateBuilder) of the preview routes
getDefaultTemplate(connOk, queryOk, builderOk, pick) ==
    IF ~connOk THEN createDefaultQuotationTemplate(builderOk)
    ELSE IF ~queryOk THEN createDefaultQuotationTemplate(builderOk)
    ELSE IF pick # NoId
         THEN (IF LoadTemplate(pick).threw
               THEN createDefaultQuotationTemplate(builderOk)
               ELSE LoadTemplate(pick).template)
         ELSE createDefaultQuotationTemplate(builderOk)

ResolveExplicit_Substitute(tid, connOk, queryOk) ==
    IF ~connOk \/ ~queryOk THEN NoTemplate
    ELSE IF tid \notin Present
         THEN (IF DefaultRowIds # {} THEN Stored(CHOOSE d \in DefaultRowIds : TRUE) ELSE BuiltinTemplate)
         ELSE IF LoadTemplate(tid).threw THEN NoTemplate
         ELSE LoadTemplate(tid).template

\* the `if (templateId) { try ... catch }` block of both preview routes;
\* NoTemplate stands for the 404 return of the catch
ResolveExplicit(tid, connOk, queryOk) ==
    IF ~connOk \/ ~queryOk THEN NoTemplate
    ELSE IF tid \notin Present THEN NoTemplate
    ELSE IF LoadTemplate(tid).threw THEN NoTemplate
    ELSE IF LoadTemplate(tid).template.id # tid THEN NoTemplate
    ELSE LoadTemplate(tid).template

\* what a preview request carries besides the ids: ?format=, If-None-Match, the
\* wall clock when it is served, and whether the loaded template comes with
\* __meta.degraded
WallClocks == {1, 2}
NoHeader == <<>>
Request(format, inm, now, degraded) ==
    [format |-> format, inm |-> inm, now |-> now, degraded |-> degraded]
NoRequest == Request("html", NoHeader, 1, FALSE)

\* what a preview response delivers: the kind of body, the ETag header, the
\* wall-clock value embedded (0 if none), DEGRADED= of the TEMPLATE_DEBUG
\* comment, the DEGRADED_TEMPLATE comment, and the template of the document
Delivery(kind, etag, generated, debugDegraded, degradedComment, document) ==
    [kind |-> kind, etag |-> etag, generated |-> generated, debugDegraded |-> debugDegraded,
     degradedComment |-> degradedComment, document |-> document]

Response(ep, tid, status, resolved, rendered, env) ==
    [endpoint |-> ep, templateId |-> tid, status |-> status,
     resolved |-> resolved, rendered |-> rendered, env |-> env,
     req |-> NoRequest, out |-> Delivery("none", NoHeader, 0, "absent", FALSE, NoId)]

\* the bytes of a template id: t2 is as long as a UUID
LongId == [i \in 1..36 |-> "x"]

\* templateBuilder.template?.__meta, degraded
MetaDegraded(template, req) == template.kind = "stored" /\ req.degraded

\* etagSeed: `${template.id}:${template.updated_at}:${meta.degraded ? 'D' : 'OK'}`
EtagSeed(id, updated_at, degraded) ==
    (IF id = "t2" THEN LongId ELSE <<id>>)
        \o <<":", updated_at, ":", IF degraded THEN "D" ELSE "OK">>

\* template.updated_at || template.updatedAt || 'na'
UpdatedAtOf(template) ==
    IF template.kind = "stored" /\ template.id \in TplIds /\ store[template.id].present
    THEN ToString(store[template.id].updated_at) ELSE "na"

\* base64 turns 3 bytes into 4 characters; substring(0, 32) keeps 24 bytes
EtagBytes == 24

\* 'W/"' + Buffer.from(etagSeed).toString('base64').substring(0,32) + '"'
Etag(seed) == SubSeq(seed, 1, IF Len(seed) < EtagBytes THEN Len(seed) ELSE EtagBytes)

\* the response of GET /:id/preview once the template is resolved and rendered
PlainDeliver(template, req) ==
    [status |-> 200,
     out |-> Delivery(req.format, NoHeader, req.now, "absent", FALSE, template.id)]

IframeDeliver_Unconditional(template, req) ==
    LET degraded == MetaDegraded(template, req)
        etag == Etag(EtagSeed(template.id, UpdatedAtOf(template), degraded))
    IN [status |-> 200,
        out |-> Delivery("html", etag, req.now, IF degraded THEN "true" ELSE "false",
                         degraded, template.id)]

\* the response of GET /:id/preview/iframe once the template is resolved and rendered
IframeDeliver(template, req) ==
    LET degraded == MetaDegraded(template, req)
        etag == Etag(EtagSeed(template.id, UpdatedAtOf(template), degraded))
    IN IF req.inm = etag
       THEN [status |-> 304, out |-> Delivery("empty", etag, 0, "absent", FALSE, NoId)]
       ELSE [status |-> 200,
             out |-> Delivery("html", etag, req.now, IF degraded THEN "true" ELSE "false",
                              degraded, template.id)]

Env(qRes, connOk, queryOk, builderOk, pick, cfgOk, tsRes, renderOk) ==
    [qRes |-> qRes, connOk |-> connOk, queryOk |-> queryOk, builderOk |-> builderOk,
     pick |-> pick, cfgOk |-> cfgOk, tsRes |-> tsRes, renderOk |-> renderOk]

NoResp == Response("none", NoId, 0, NoTemplate, NoTemplate,
                   Env("ok", TRUE, TRUE, TRUE, NoId, TRUE, "row", TRUE))

\* GET /:id/preview and GET /:id/preview/iframe
PreviewHandler(ep, tid, env, req) ==
    IF env.qRes = "throw"
    THEN [Response(ep, tid, 500, NoTemplate, NoTemplate, env) EXCEPT !.req = req]
    ELSE IF env.qRes = "notfound"
    THEN [Response(ep, tid, 404, NoTemplate, NoTemplate, env) EXCEPT !.req = req]
    ELSE LET template == IF tid # NoId
                         THEN ResolveExplicit(tid, env.connOk, env.queryOk)
                         ELSE getDefaultTemplate(env.connOk, env.queryOk, env.builderOk, env.pick)
             d == IF ep = "iframe" THEN IframeDeliver(template, req)
                  ELSE PlainDeliver(template, req)
         IN IF tid # NoId /\ template = NoTemplate
            THEN [Response(ep, tid, 404, NoTemplate, NoTemplate, env) EXCEPT !.req = req]
            ELSE IF template = NoTemplate \/ ~env.renderOk
            THEN [Response(ep, tid, 500, template, NoTemplate, env) EXCEPT !.req = req]
            ELSE [Response(ep, tid, d.status, template,
                           IF d.status = 200 THEN template ELSE NoTemplate, env)
                     EXCEPT !.req = req, !.out = d.out]

\* the requests of each preview endpoint: format is read by /preview only,
\* If-None-Match by /preview/iframe only
PreviewRequests(ep, qRes) ==
    IF qRes # "ok" THEN {NoRequest}
    ELSE IF ep = "preview"
    THEN {Request(f, NoHeader, now, dg) : f \in {"html", "json"}, now \in WallClocks, dg \in BOOLEAN}
    ELSE {Request("html", inm, now, dg) : inm \in {NoHeader, <<"t1", ":", "1", ":", "OK">>,
                                                     <<"t1", ":", "1", ":", "D">>, Etag(LongId)}, now \in WallClocks, dg \in BOOLEAN}

PreviewRequest ==
    /\ resp.endpoint = "none"
    /\ \E ep \in {"preview", "iframe"}, tid \in ReqIds \cup {NoId},
       qRes \in {"ok", "notfound", "throw"}, connOk, queryOk, builderOk, renderOk \in BOOLEAN,
       pick \in DefaultPicks :
       \E req \in PreviewRequests(ep, qRes) :
        resp' = PreviewHandler(ep, tid,
                    Env(qRes, connOk, queryOk, builderOk, pick, TRUE, "row", renderOk), req)
    /\ UNCHANGED <<store, colType, clock, sysConfig, loadMap, rp, runs, fx, pdf, bld, fq, ed>>

\* obj?.name on a plain object; the null object has no fields
NullObject == [f \in {} |-> NoId]
Field(obj, name) == IF name \in DOMAIN obj THEN obj[name] ELSE "undefined"

\* getDefaultTemplateConfig(): { defaultTemplateId: config_value } or null
getDefaultTemplateConfig(cfgOk) ==
    IF ~cfgOk THEN NullObject
    ELSE IF sysConfig # NoId THEN [defaultTemplateId |-> sysConfig]
    ELSE NullObject

\* templateService.getDefaultTemplate(): the store's default row, the service's
\* own fallback object (an id no row carries), or an exception
TemplateServiceDefault(tsRes, pick) ==
    IF tsRes = "throw" THEN [threw |-> TRUE, id |-> NoId]
    ELSE IF tsRes = "row" /\ pick # NoId THEN [threw |-> FALSE, id |-> pick]
    ELSE [threw |-> FALSE, id |-> "service-default"]

\* the else branch of POST /print/print: configured default, then store default
PrintResolveDefault(env) ==
    LET defaultConfig == getDefaultTemplateConfig(env.cfgOk)
        configured == Field(defaultConfig, "template_id")
        viaConfig == IF configured # "undefined" THEN LoadTemplate(configured)
                     ELSE [threw |-> TRUE, template |-> NoTemplate]
        ts == TemplateServiceDefault(env.tsRes, env.pick)
    IN IF ~viaConfig.threw THEN viaConfig
       ELSE IF ts.threw THEN [threw |-> TRUE, template |-> NoTemplate]
       ELSE LoadTemplate(ts.id)

\* POST /print/print
PrintHandler(tid, env) ==
    IF env.qRes = "missing" THEN Response("print", tid, 400, NoTemplate, NoTemplate, env)
    ELSE IF env.qRes = "throw" THEN Response("print", tid, 500, NoTemplate, NoTemplate, env)
    ELSE IF env.qRes = "notfound" THEN Response("print", tid, 404, NoTemplate, NoTemplate, env)
    ELSE LET r == IF tid # NoId THEN LoadTemplate(tid) ELSE PrintResolveDefault(env)
         IN IF r.threw THEN Response("print", tid, 500, NoTemplate, NoTemplate, env)
            ELSE IF ~env.renderOk THEN Response("print", tid, 500, r.template, NoTemplate, env)
            ELSE Response("print", tid, 200, r.template, r.template, env)

PrintRequest ==
    /\ resp.endpoint = "none"
    /\ \E tid \in ReqIds \cup {NoId}, qRes \in {"ok", "notfound", "throw", "missing"},
       cfgOk, renderOk \in BOOLEAN, tsRes \in {"row", "fallback", "throw"}, pick \in DefaultPicks :
        resp' = PrintHandler(tid, Env(qRes, TRUE, TRUE, TRUE, pick, cfgOk, tsRes, renderOk))
    /\ UNCHANGED <<store, colType, clock, sysConfig, loadMap, rp, runs, fx, pdf, bld, fq, ed>>

\* POST /pdf: templateId is read from the body and not used again
PdfHandler(tid, env) ==
    IF env.qRes = "missing" THEN Response("pdf", tid, 400, NoTemplate, NoTemplate, env)
    ELSE IF env.qRes = "throw" THEN Response("pdf", tid, 500, NoTemplate, NoTemplate, env)
    ELSE IF env.qRes = "notfound" THEN Response("pdf", tid, 404, NoTemplate, NoTemplate, env)
    \* generateSimpleQuotationHTML: a fixed layout, no template involved
    ELSE Response("pdf", tid, 200, NoTemplate,
                  [id |-> NoId, kind |-> "hardcoded", elements |-> <<>>], env)

PdfRequest ==
    /\ resp.endpoint = "none"
    /\ \E tid \in ReqIds \cup {NoId}, qRes \in {"ok", "notfound", "throw", "missing"} :
        resp' = PdfHandler(tid, Env(qRes, TRUE, TRUE, TRUE, NoId, TRUE, "row", TRUE))
    /\ UNCHANGED <<store, colType, clock, sysConfig, loadMap, rp, runs, fx, pdf, bld, fq, ed>>

-----------------------------------------------------------------------------
(* PdfService: the singleton, and callers of generateFromHTML stepping     *)
(* from one await to the next                                              *)

Callers == {"c1", "c2"}

\* a || b
OrElse(a, b) == IF a # "undefined" THEN a ELSE b

ShellHead == <<"<!DOCTYPE html>", "<html>", "<head>", "window.print()", "</head>", "<body>", "print-info">>
ShellTail == <<"</body>", "</html>">>

wrapHtmlForPrint_DropHtml(html) == ShellHead \o ShellTail

\* wrapHtmlForPrint(html)
wrapHtmlForPrint(html) == ShellHead \o html \o ShellTail

\* { success: true, fallback: true, data: this.wrapHtmlForPrint(html), format }
FallbackResult(html, format) ==
    [state |-> "resolved", fallback |-> TRUE, kind |-> "html", body |-> wrapHtmlForPrint(html),
     format |-> format, margin |-> "undefined"]

\* page.pdf({ format: pdfOptions.format || 'A4', margin: pdfOptions.margin || pdfOptions.margins })
\* and { success: true, fallback: false, data: pdfBuffer, format: pdfOptions.format }
PdfResult(html, pdfOptions) ==
    [state |-> "resolved", fallback |-> FALSE, kind |-> "pdf", body |-> html,
     format |-> OrElse(Field(pdfOptions, "format"), "A4"),
     margin |-> OrElse(Field(pdfOptions, "margin"), Field(pdfOptions, "margins"))]

\* given: the options argument; options: pdfOptions; hung: the awaited engine
\* call never settles
IdleCall == [pc |-> "idle", html |-> <<>>, given |-> NullObject, options |-> NullObject,
             browser |-> 0, hung |-> FALSE, failedAt |-> "none",
             result |-> [state |-> "none", fallback |-> FALSE, kind |-> "none", body |-> <<>>,
                         format |-> "undefined", margin |-> "undefined"]]

\* browser: this.browser (0 is null); live: engine instances launched and not
\* closed; closed: close() has run
PdfIdle == [browser |-> 0, launched |-> 0, live |-> {}, closed |-> FALSE, pages |-> 0,
            calls |-> [c \in Callers |-> IdleCall]]

SetCall(c, call) == [pdf EXCEPT !.calls[c] = call]

\* generateFromHTML(html, options) is entered; the first options object is
\* the download route's; pdfOptions = { ...this.options, ...options }
GenStart(c) ==
    /\ pdf.calls[c].pc \in {"idle", "done"}
    /\ \E html \in {<<"<h1>", "Q1">>, <<"<p>">>},
          options \in {[format |-> "A4", quality |-> "HIGH", margins |-> "15mm"],
                       [format |-> "Letter", margins |-> "10mm"],
                       [format |-> "Letter", margin |-> "10mm"]} :
         pdf' = SetCall(c, [IdleCall EXCEPT
                    !.pc = "initBrowser", !.html = html, !.given = options,
                    \* { ...defaults, ...options }
                    !.options = LET a == [format |-> "A4", orientation |-> "portrait",
                                          margin |-> "15mm"]
                                IN [f \in DOMAIN a \cup DOMAIN options |->
                                       IF f \in DOMAIN options THEN options[f] ELSE a[f]]])

\* initBrowser(): if (!this.browser) launch, else return this.browser
InitBrowser(c) ==
    /\ pdf.calls[c].pc = "initBrowser"
    /\ pdf' = IF pdf.browser = 0
              THEN SetCall(c, [pdf.calls[c] EXCEPT !.pc = "launch"])
              ELSE SetCall(c, [pdf.calls[c] EXCEPT !.pc = "newPage", !.browser = pdf.browser])

\* await puppeteer.launch(...) settles
Launch(c) ==
    /\ pdf.calls[c].pc = "launch"
    /\ ~pdf.calls[c].hung
    /\ \/ /\ pdf.launched < MaxLaunches
          /\ pdf' = [SetCall(c, [pdf.calls[c] EXCEPT !.pc = "newPage", !.browser = pdf.launched + 1])
                        EXCEPT !.browser = pdf.launched + 1, !.launched = pdf.launched + 1,
                               !.live = pdf.live \cup {pdf.launched + 1}]
       \/ pdf' = SetCall(c, [pdf.calls[c] EXCEPT !.pc = "done", !.failedAt = "launch",
                    !.result = FallbackResult(pdf.calls[c].html, Field(pdf.calls[c].options, "format"))])

\* the catch block of generateFromHTML
Caught(c, step) ==
    SetCall(c, [pdf.calls[c] EXCEPT !.pc = "done", !.failedAt = step, !.hung = FALSE,
                                    !.result = FallbackResult(pdf.calls[c].html, "HTML")])

\* await browser.newPage() settles
NewPage(c) ==
    /\ pdf.calls[c].pc = "newPage"
    /\ ~pdf.calls[c].hung
    /\ \/ /\ pdf.pages < MaxPages
          /\ pdf' = [SetCall(c, [pdf.calls[c] EXCEPT !.pc = "setContent"]) EXCEPT !.pages = pdf.pages + 1]
       \/ pdf' = Caught(c, "newPage")

\* await page.setContent(html, { waitUntil: 'networkidle0', timeout: 30000 }) settles
SetContent(c) ==
    /\ pdf.calls[c].pc = "setContent"
    /\ ~pdf.calls[c].hung
    /\ \/ pdf' = SetCall(c, [pdf.calls[c] EXCEPT !.pc = "pdf"])
       \/ pdf' = Caught(c, "setContent")

\* await page.pdf(...) settles
PagePdf(c) ==
    /\ pdf.calls[c].pc = "pdf"
    /\ ~pdf.calls[c].hung
    /\ \/ pdf' = SetCall(c, [pdf.calls[c] EXCEPT !.pc = "close"])
       \/ pdf' = Caught(c, "pdf")

\* await page.close() settles, then the result object is returned
PageClose(c) ==
    /\ pdf.calls[c].pc = "close"
    /\ ~pdf.calls[c].hung
    /\ \/ pdf' = [SetCall(c, [pdf.calls[c] EXCEPT !.pc = "done",
                       !.result = PdfResult(pdf.calls[c].html, pdf.calls[c].options)])
                    EXCEPT !.pages = pdf.pages - 1]
       \/ pdf' = Caught(c, "close")

\* the engine stops answering the call being awaited
Hang(c) ==
    /\ pdf.calls[c].pc \in {"launch", "newPage", "setContent", "pdf", "close"}
    /\ ~pdf.calls[c].hung
    /\ pdf' = SetCall(c, [pdf.calls[c] EXCEPT !.hung = TRUE])

\* the timeout of a hung step expires and the await rejects; the one step
\* awaited with a timeout is page.setContent(html, { ..., timeout: 30000 })
Timeout(c) ==
    /\ pdf.calls[c].hung
    /\ pdf.calls[c].pc \in {"setContent"}
    /\ pdf' = Caught(c, pdf.calls[c].pc)

\* close(): the shared handle is closed and forgotten
ServiceClose ==
    /\ pdf.browser # 0
    /\ pdf' = [pdf EXCEPT !.browser = 0, !.live = pdf.live \ {pdf.browser}, !.closed = TRUE]

PdfFrame == UNCHANGED <<store, colType, clock, sysConfig, loadMap, resp, rp, runs, fx, bld, fq, ed>>

-----------------------------------------------------------------------------
(* Quotation records and the rendering contexts built from them *)

MaxValue == 2       \* finite field values are 0..MaxValue
MaxItems == 2       \* line items of a record

\* JavaScript values a cost or quantity field can hold
Fin(n) == [t |-> "number", n |-> n]
NaN == [t |-> "NaN", n |-> 0]
Infinity == [t |-> "Infinity", n |-> 0]
Undefined == [t |-> "undefined", n |-> 0]

FieldValues ==
    {Fin(n) : n \in 0..MaxValue} \cup {[t |-> "numeric string", n |-> n] : n \in 0..MaxValue}
        \cup {NaN, Infinity, Undefined, [t |-> "null", n |-> 0], [t |-> "string", n |-> 0]}

\* the operand test of a || b (every string here is non-empty)
Truthy(v) ==
    CASE v.t = "number" -> v.n # 0
      [] v.t \in {"NaN", "null", "undefined"} -> FALSE
      [] OTHER -> TRUE

\* a || b
Or(a, b) == IF Truthy(a) THEN a ELSE b

\* parseFloat(v)
ParseFloat(v) ==
    CASE v.t \in {"number", "Infinity"} -> v
      [] v.t = "numeric string" -> Fin(v.n)
      [] OTHER -> NaN

\* the number a numeric operator or Intl.NumberFormat makes of v
ToNumber(v) ==
    CASE v.t \in {"number", "Infinity", "NaN"} -> v
      [] v.t = "numeric string" -> Fin(v.n)
      [] v.t = "null" -> Fin(0)
      [] OTHER -> NaN

\* a * b on numbers
Times(a, b) ==
    IF a.t = "NaN" \/ b.t = "NaN" THEN NaN
    ELSE IF a.t = "Infinity" THEN (IF b = Fin(0) THEN NaN ELSE Infinity)
    ELSE IF b.t = "Infinity" THEN (IF a = Fin(0) THEN NaN ELSE Infinity)
    ELSE Fin(a.n * b.n)

\* a + b on numbers
Plus(a, b) ==
    IF a.t = "NaN" \/ b.t = "NaN" THEN NaN
    ELSE IF a.t = "Infinity" \/ b.t = "Infinity" THEN Infinity
    ELSE Fin(a.n + b.n)

\* numberOrZero: v => (typeof v === 'number' && !isNaN(v)) ? v : (parseFloat(v) || 0)
numberOrZero(v) ==
    IF v.t \in {"number", "Infinity"} THEN v ELSE Or(ParseFloat(v), Fin(0))

\* x.toFixed(2): the text of the number x
ToFixed(x) == [fmt |-> "toFixed", of |-> x]

\* formatCurrency(amount): Intl.NumberFormat(...).format(amount || 0)
formatCurrency(amount) == [fmt |-> "currency", of |-> ToNumber(Or(amount, Fin(0)))]

\* `${n} ${unit}`
DurationText(n, unit) == [n |-> n, unit |-> unit]

\* a quotation record: the fields the builders read
Record(machine, days, quantity, rate, cost, k) ==
    [machine_type |-> machine, number_of_days |-> days, base_rate |-> rate,
     total_rent |-> cost, gst_amount |-> cost, total_cost |-> cost, working_cost |-> cost,
     mob_demob_cost |-> cost, food_accom_cost |-> cost,
     risk_adjustment |-> cost, usage_load_factor |-> rate,
     items |-> [i \in 1..k |-> [quantity |-> quantity, rate |-> rate, base_rate |-> rate]]]

ItemRow(no, placeholder, description, quantity, duration, rate, rental, mobDemob, riskUsage) ==
    [no |-> no, placeholder |-> placeholder, description |-> description, quantity |-> quantity,
     duration |-> duration, rate |-> rate, rental |-> rental, mobDemob |-> mobDemob,
     riskUsage |-> riskUsage]

\* mapQuotationToTemplateData(quotationData): items, quotation.duration, totals
mapQuotationToTemplateData(q) ==
    LET riskAdjustmentCalculated == numberOrZero(q.risk_adjustment)
        usageLoadFactorCalculated == numberOrZero(q.usage_load_factor)
        riskUsageTotalCalculated == Plus(riskAdjustmentCalculated, usageLoadFactorCalculated)
        durationDays == Or(numberOrZero(q.number_of_days), Fin(1))
        mapped == [idx \in 1..Len(q.items) |->
            LET item == q.items[idx]
                qty == numberOrZero(Or(item.quantity, Fin(1)))
                baseRate == numberOrZero(Or(item.rate, Or(item.base_rate, Fin(0))))
                rental == Times(Times(qty, baseRate), durationDays)
            IN ItemRow(idx, FALSE, <<"item">>, qty,
                       DurationText(durationDays, IF durationDays = Fin(1) THEN "day" ELSE "days"),
                       ToFixed(baseRate), ToFixed(rental),
                       ToFixed(numberOrZero(q.mob_demob_cost)),
                       ToFixed(riskUsageTotalCalculated))]
        fallbackRate == numberOrZero(Or(q.base_rate, Fin(0)))
        calculatedRental == Times(Times(fallbackRate, Fin(1)), durationDays)
        fallback == ItemRow(1, TRUE,
                       <<IF q.machine_type # "undefined" THEN q.machine_type ELSE "Equipment">>,
                       Fin(1), DurationText(durationDays, "day"),
                       ToFixed(fallbackRate), ToFixed(calculatedRental),
                       ToFixed(numberOrZero(q.mob_demob_cost)),
                       ToFixed(riskUsageTotalCalculated))
    IN [items |-> IF Len(mapped) = 0 THEN <<fallback>> ELSE mapped,
        duration |-> DurationText(durationDays, "days"),
        totals |-> [subtotal |-> formatCurrency(Or(q.total_rent, Fin(0))),
                    tax |-> formatCurrency(Or(q.gst_amount, Fin(0))),
                    total |-> formatCurrency(Or(q.total_cost, Fin(0))),
                    workingCost |-> formatCurrency(Or(q.working_cost, Fin(0))),
                    mobDemobCost |-> formatCurrency(Or(q.mob_demob_cost, Fin(0))),
                    foodAccomCost |-> formatCurrency(Or(q.food_accom_cost, Fin(0))),
                    riskAdjustment |-> formatCurrency(riskAdjustmentCalculated),
                    usageLoadFactor |-> formatCurrency(usageLoadFactorCalculated),
                    riskUsageTotal |-> formatCurrency(riskUsageTotalCalculated)]]

\* a fixed text such as `₹1,000/day`
Literal(text) == [fmt |-> "literal", of |-> text]

\* `₹${x.toLocaleString('en-IN')}` and the like: the text of the value x
Localized(x) == [fmt |-> "toLocaleString", of |-> x]

\* Math.round(x)
Round(x) == ToNumber(x)

\* the items of generateSimpleQuotationHTML's data
SimpleItems(q) ==
    IF Len(q.items) > 0
    THEN [index \in 1..Len(q.items) |->
            LET item == q.items[index] IN
            ItemRow(index, FALSE, <<"item">>, Or(item.quantity, Fin(1)),
                    DurationText(Or(q.number_of_days, Fin(1)), "days"),
                    Localized(Or(item.base_rate, Fin(1000))),
                    Localized(Round(Or(q.total_rent, Fin(0)))),
                    Literal("15,000"), Literal("10,000"))]
    ELSE <<ItemRow(1, TRUE,
                   <<IF q.machine_type # "undefined" THEN q.machine_type ELSE "Telescopic Mobile Crane",
                     " XCMG QY 130K">>,
                   Fin(1), DurationText(Or(q.number_of_days, Fin(1)), "day"),
                   Literal("1,000/day"),
                   Localized(Round(Or(q.total_rent, Fin(1000)))),
                   Localized(Round(Or(q.mob_demob_cost, Fin(600)))),
                   Literal("0"))>>

BldIdle == [q |-> Record("undefined", Undefined, Undefined, Undefined, Undefined, 0),
            built |-> FALSE,
            preview |-> [items |-> <<>>, duration |-> DurationText(Fin(0), "none"), totals |-> <<>>],
            download |-> <<>>]

\* both builders run on the record
BuildContexts ==
    /\ ~bld.built
    /\ bld' = [bld EXCEPT !.built = TRUE,
                          !.preview = mapQuotationToTemplateData(bld.q),
                          !.download = SimpleItems(bld.q)]
    /\ UNCHANGED <<store, colType, clock, sysConfig, loadMap, resp, rp, runs, fx, pdf, fq, ed>>

-----------------------------------------------------------------------------
(* getQuotationWithDetails: the customer of a quotation row *)

NamedContact == <<"{", Q, "n", "a", "m", "e", Q, ":", Q, "k", Q, "}">>

\* customerContact after the guarded JSON.parse: the kind of value it holds
\* ("object" also when it stays {})
ContactKind(cell) ==
    IF cell.k = "null" THEN "object"
    ELSE IF cell.k # "str" THEN "object"
    ELSE IF cell.s = <<>> THEN "object"
    ELSE IF ~ValidJson(cell.s) THEN "object"
    ELSE JsonKind(cell.s)

\* customerContact.name and the like, for a value that has properties
ContactField(cell, name) ==
    IF cell.k = "str" /\ cell.s = NamedContact /\ name = "name" THEN "k" ELSE "undefined"

\* a || b on texts and missing values
OrText(a, b) == IF a \in {"undefined", "null", ""} THEN b ELSE a

NoCustomer == [name |-> "undefined", email |-> "undefined"]

QuotationRow(id, contact, name, dbName, email) ==
    [id |-> id, customer_contact |-> contact, customer_name |-> name,
     customer_db_name |-> dbName, customer_email |-> email]

\* generateQuotationNumber(quotationId): ASP-Q- and a number from 1 to 9999
\* hashed in 32-bit arithmetic from the part after the first underscore, or
\* ASP-Q- and characters 5 to 7 of the id in upper case
generateQuotationNumber(quotationId) ==
    LET n == Len(quotationId)
        under == {i \in 1..n : quotationId[i] = "_"}
        first == CHOOSE i \in under : \A j \in under : i <= j
        rest == {i \in under : i > first}
        last == IF rest = {} THEN n + 1 ELSE CHOOSE i \in rest : \A j \in rest : i <= j
        part == SubSeq(quotationId, first + 1, last - 1)
        charCode == [c \in {"1", "z"} |-> IF c = "1" THEN 49 ELSE 122]
        \* the 32-bit accumulator as its high and low 16-bit halves:
        \* ((a << 5) - a) + code, then a & a
        hash[i \in 0..Len(part)] ==
            IF i = 0 THEN [hi |-> 0, lo |-> 0]
            ELSE LET low == 31 * hash[i - 1].lo + charCode[part[i]]
                 IN [hi |-> (31 * hash[i - 1].hi + (low \div 65536)) % 65536,
                     lo |-> low % 65536]
        hashCode == hash[Len(part)]
        \* Math.abs of the signed value, again as halves
        abs == IF hashCode.hi < 32768 THEN hashCode
               ELSE [hi |-> (65535 - hashCode.hi + (IF hashCode.lo = 0 THEN 1 ELSE 0)) % 65536,
                     lo |-> (65536 - hashCode.lo) % 65536]
        num == (((abs.hi % 9999) * (65536 % 9999) + abs.lo) % 9999) + 1
        digit(k) == ToString(k % 10)
        text == (IF num >= 1000 THEN <<digit(num \div 1000)>> ELSE <<>>)
                    \o <<digit(num \div 100), digit(num \div 10), digit(num)>>
        upper == [c \in {"a", "b", "1", "q", "u", "o", "t", "-"} |->
                    CASE c = "a" -> "A" [] c = "b" -> "B" [] c = "q" -> "Q" [] c = "u" -> "U"
                      [] c = "o" -> "O" [] c = "t" -> "T" [] OTHER -> c]
        cut == SubSeq(quotationId, 6, IF n < 8 THEN n ELSE 8)
    IN <<"A", "S", "P", "-", "Q", "-">> \o
       (IF under # {} THEN text ELSE [i \in 1..Len(cut) |-> upper[cut[i]]])

\* the quotation number each output shows for a quotation id: the preview
\* (getQuotationWithDetails of the preview routes), the print and the download
\* of the print routes (quotation_number: row.id, then quotation_number || id),
\* and the print of the quotation routes (getQuotationWithFullDetails)
QuotationNumbers(id) ==
    [preview |-> generateQuotationNumber(id), print |-> id, download |-> id,
     fullDetails |-> generateQuotationNumber(id)]

\* getQuotationWithDetails for a row that exists: reading a property of null
\* throws inside the outer try, which rethrows 'Failed to fetch quotation'
getQuotationWithDetails(row) ==
    IF ContactKind(row.customer_contact) = "null"
    THEN [threw |-> TRUE, customer |-> NoCustomer]
    ELSE [threw |-> FALSE,
          customer |->
            [name |-> OrText(ContactField(row.customer_contact, "name"),
                        OrText(row.customer_name,
                          OrText(row.customer_db_name, "Unknown Customer"))),
             email |-> OrText(ContactField(row.customer_contact, "email"),
                         OrText(row.customer_email, ""))]]

FqIdle == [row |-> QuotationRow(<<"q", "1">>, Null, "null", "null", "null"), done |-> FALSE,
           threw |-> FALSE, customer |-> NoCustomer, numbers |-> QuotationNumbers(<<>>)]

FetchQuotation ==
    /\ ~fq.done
    /\ LET r == getQuotationWithDetails(fq.row)
       IN fq' = [fq EXCEPT !.done = TRUE, !.threw = r.threw, !.customer = r.customer,
                           !.numbers = QuotationNumbers(fq.row.id)]
    /\ UNCHANGED <<store, colType, clock, sysConfig, loadMap, resp, rp, runs, fx, pdf, bld, ed>>

-----------------------------------------------------------------------------
(* The template editor: the template, its history, undo and redo.  Each    *)
(* handler runs in the render it was created in and sees that render's     *)
(* template, history and historyIndex; state set in it shows in the next.   *)

MaxEdits == 3       \* edits made in the editor

\* template, history, historyIndex: the component's state as first rendered;
\* timer: the debounce timeout is pending; phase, before, after, preHistory,
\* preIndex: the last handlers run and the state around them
EdIdle ==
    [template |-> [theme |-> "MODERN", elements |-> <<>>], history |-> <<>>,
     historyIndex |-> -1, timer |-> FALSE, edits |-> 0, phase |-> "none",
     before |-> [theme |-> "MODERN", elements |-> <<>>],
     after |-> [theme |-> "MODERN", elements |-> <<>>],
     preHistory |-> <<>>, preIndex |-> -1]

\* saveToHistory() in a render with this template, history and historyIndex:
\* the state it sets
saveToHistory(template, history, historyIndex) ==
    LET newHistory == Append(SubSeq(history, 1, historyIndex + 1), template)
    IN [history |-> newHistory, historyIndex |-> Len(newHistory) - 1]

\* setTemplate(prev => next); saveToHistory();
Edit(next) ==
    /\ ed.edits < MaxEdits
    /\ LET saved == saveToHistory(ed.template, ed.history, ed.historyIndex)
       IN ed' = [ed EXCEPT !.template = next, !.history = saved.history,
                           !.historyIndex = saved.historyIndex, !.edits = ed.edits + 1,
                           !.phase = "edited", !.before = ed.template, !.after = next,
                           !.preHistory = ed.history, !.preIndex = ed.historyIndex]
    /\ UNCHANGED <<store, colType, clock, sysConfig, loadMap, resp, rp, runs, fx, pdf, bld, fq>>

\* addElement(elementType): the new element has a fresh id
addElement ==
    Edit([ed.template EXCEPT !.elements = Append(@, [id |-> ed.edits + 1, rev |-> 0])])

\* deleteElement(elementId)
deleteElement ==
    \E i \in 1..Len(ed.template.elements) :
        Edit([ed.template EXCEPT !.elements = SubSeq(@, 1, i - 1) \o SubSeq(@, i + 1, Len(@))])

\* reorderElements(result): splice the dragged item out and in again
reorderElements ==
    \E source, destination \in 1..Len(ed.template.elements) :
        LET items == ed.template.elements
            rest == SubSeq(items, 1, source - 1) \o SubSeq(items, source + 1, Len(items))
        IN Edit([ed.template EXCEPT !.elements =
                    SubSeq(rest, 1, destination - 1) \o <<items[source]>>
                        \o SubSeq(rest, destination, Len(rest))])

\* applyTheme(themeName)
applyTheme == \E themeName \in {"MODERN", "CLASSIC"} : Edit([ed.template EXCEPT !.theme = themeName])

\* undo(); its button is disabled while historyIndex <= 0
undo ==
    /\ ed.historyIndex > 0
    /\ ed' = [ed EXCEPT !.historyIndex = ed.historyIndex - 1,
                        !.template = ed.history[ed.historyIndex],
                        !.phase = IF ed.phase = "edited" THEN "undone" ELSE "other",
                        !.preHistory = ed.history, !.preIndex = ed.historyIndex]
    /\ UNCHANGED <<store, colType, clock, sysConfig, loadMap, resp, rp, runs, fx, pdf, bld, fq>>

\* redo(); its button is disabled while historyIndex >= history.length - 1
redo ==
    /\ ed.historyIndex < Len(ed.history) - 1
    /\ ed' = [ed EXCEPT !.historyIndex = ed.historyIndex + 1,
                        !.template = ed.history[ed.historyIndex + 2],
                        !.phase = IF ed.phase = "undone" THEN "redone" ELSE "other",
                        !.preHistory = ed.history, !.preIndex = ed.historyIndex]
    /\ UNCHANGED <<store, colType, clock, sysConfig, loadMap, resp, rp, runs, fx, pdf, bld, fq>>

\* updateElementWithHistory(elementId, updates): the element changes now, the
\* debounce timeout is set anew
updateElementWithHistory ==
    /\ ed.edits < MaxEdits
    /\ \E i \in 1..Len(ed.template.elements) :
         ed' = [ed EXCEPT !.template.elements[i].rev = @ + 1, !.timer = TRUE,
                          !.edits = ed.edits + 1, !.phase = "updated",
                          !.preHistory = ed.history, !.preIndex = ed.historyIndex]
    /\ UNCHANGED <<store, colType, clock, sysConfig, loadMap, resp, rp, runs, fx, pdf, bld, fq>>

\* the debounce timeout fires: debouncedSaveToHistory was made once, with
\* dependencies [], so it calls the saveToHistory of the first render
later ==
    /\ ed.timer
    /\ LET saved == saveToHistory(EdIdle.template, EdIdle.history, EdIdle.historyIndex)
       IN ed' = [ed EXCEPT !.history = saved.history, !.historyIndex = saved.historyIndex,
                           !.timer = FALSE, !.phase = "fired",
                           !.preHistory = ed.history, !.preIndex = ed.historyIndex]
    /\ UNCHANGED <<store, colType, clock, sysConfig, loadMap, resp, rp, runs, fx, pdf, bld, fq>>

-----------------------------------------------------------------------------
(* Specifications *)

EmptyStore == [id \in TplIds |-> AbsentRow]

WellFormedObject == Str(<<"{", "}">>)

\* the delivery layer: a store, a configuration row, and requests
Init ==
    /\ \E r1 \in {AbsentRow} \cup
                {Row(d, a, 1, Str(<<"[", "1", "]">>), WellFormedObject, WellFormedObject, WellFormedObject) :
                    d \in BOOLEAN, a \in BOOLEAN},
       r2 \in {AbsentRow} \cup
                {Row(d, TRUE, u, Str(<<"[", "]">>), WellFormedObject, WellFormedObject, WellFormedObject) :
                    d \in BOOLEAN, u \in 1..2} :
        store = [id \in TplIds |-> IF id = "t1" THEN r1 ELSE r2]
    /\ colType = "text"
    /\ clock = 3
    /\ sysConfig \in ReqIds \cup {NoId}
    /\ loadMap \in {m \in [ReqIds -> {"ok", "wrong", "throw"}] :
                       \A id \in ReqIds :
                           /\ m[id] = "ok" => id \in TplIds /\ store[id].present
                           /\ m[id] = "wrong" => store[WrongId(id)].present}
    /\ resp = NoResp
    /\ rp = RepairIdle
    /\ runs = <<>>
    /\ fx = FixIdle
    /\ pdf = PdfIdle
    /\ ed = EdIdle
    /\ bld = BldIdle
    /\ fq = FqIdle

Next == PreviewRequest \/ PrintRequest \/ PdfRequest

Spec == Init /\ [][Next]_vars

\* one column through repair passes
\* a text column holds NULL or a text; a json / jsonb column comes back decoded
\* (a JSON string scalar as a string)
InitFixSpec ==
    /\ \E ct \in {"text", "json"} :
       \E raw \in (IF ct = "text"
                   THEN {Null} \cup {Str(s) : s \in TextsUpTo(MaxLen) \cup SampleTexts}
                   ELSE {Null, EmptyArray, EmptyObject, Obj(<<"[", "1", "]">>), Num(<<"1">>),
                         Bool(<<"t", "r", "u", "e">>), Str(<<"[", "1", "]">>),
                         Str(ObjectObjectText), Str(<<" ">>)}) :
       \E col \in Columns :
           fx = [ct |-> ct, col |-> col, orig |-> raw, raw |-> raw, n |-> 0,
                 out |-> <<>>, mutated |-> FALSE]
    /\ store = EmptyStore
    /\ colType = "text"
    /\ clock = 1
    /\ sysConfig = NoId
    /\ loadMap = [id \in ReqIds |-> "throw"]
    /\ resp = NoResp
    /\ rp = RepairIdle
    /\ runs = <<>>
    /\ pdf = PdfIdle
    /\ ed = EdIdle
    /\ bld = BldIdle
    /\ fq = FqIdle

SpecFix == InitFixSpec /\ [][FixPass]_vars

\* the repair handler over a two-row table
InitRepair ==
    /\ colType \in {"text", "json"}
    /\ LET RepairTextRows1 ==
           {Row(TRUE, TRUE, 1, el, la, se, br) :
               el \in {Null, Str(<<"[", "1", "]">>), Str(<<" ", "[", "]", " ">>), Str(<<Q, "[", "1", "]", Q>>),
                       Str(ObjectObjectText), Str(<<"[", "1">>), Str(<<>>),
                       Str(<<"{", "}">>), Str(<<"1">>)},
               la \in {Str(<<"{", "}">>), Str(<<Q, "{", "}", Q>>), Null},
               se \in {Str(<<"{", "}">>), Str(<<" ">>)},
               br \in {Str(<<"{", "}">>), Str(<<"}">>)}}
       RepairTextRows2 ==
           {Row(TRUE, TRUE, 2, el, la, WellFormedObject, WellFormedObject) :
               el \in {Str(<<"[", "]">>), Str(<<Q, "[", "]", Q>>)},
               la \in {Str(<<"{", "}">>), Null}}
       RepairJsonRows1 ==
           {Row(TRUE, TRUE, 1, el, la, EmptyObject, EmptyObject) :
               el \in {Null, EmptyArray, EmptyObject, Obj(<<"[", "1", "]">>), Num(<<"1">>)},
               la \in {EmptyObject, Null}}
       RepairJsonRows2 ==
           {Row(TRUE, TRUE, 2, el, EmptyObject, EmptyObject, EmptyObject) : el \in {EmptyArray, Null}}
       IN
       \E r1 \in (IF colType = "text" THEN RepairTextRows1 ELSE RepairJsonRows1),
          r2 \in (IF colType = "text" THEN RepairTextRows2 ELSE RepairJsonRows2) :
            store = [id \in TplIds |-> IF id = "t1" THEN r1 ELSE r2]
    /\ clock = 3
    /\ sysConfig = NoId
    /\ loadMap = [id \in ReqIds |-> "throw"]
    /\ resp = NoResp
    /\ rp = RepairIdle
    /\ runs = <<>>
    /\ fx = FixIdle
    /\ pdf = PdfIdle
    /\ ed = EdIdle
    /\ bld = BldIdle
    /\ fq = FqIdle

NextRepair == RepairBegin \/ RepairRow \/ RepairFinish \/ RepairAbort

SpecRepair == InitRepair /\ [][NextRepair]_vars

\* the repair handler with an editor saving templates meanwhile
SpecRepairSave == InitRepair /\ [][NextRepair \/ EditorSave]_vars

\* the PDF service and its callers
InitPdf ==
    /\ pdf = PdfIdle
    /\ ed = EdIdle
    /\ bld = BldIdle
    /\ fq = FqIdle
    /\ store = EmptyStore
    /\ colType = "text"
    /\ clock = 1
    /\ sysConfig = NoId
    /\ loadMap = [id \in ReqIds |-> "throw"]
    /\ resp = NoResp
    /\ rp = RepairIdle
    /\ runs = <<>>
    /\ fx = FixIdle

NextPdf ==
    \/ \E c \in Callers : GenStart(c) /\ PdfFrame
    \/ \E c \in Callers : InitBrowser(c) /\ PdfFrame
    \/ \E c \in Callers : Launch(c) /\ PdfFrame
    \/ \E c \in Callers : NewPage(c) /\ PdfFrame
    \/ \E c \in Callers : SetContent(c) /\ PdfFrame
    \/ \E c \in Callers : PagePdf(c) /\ PdfFrame
    \/ \E c \in Callers : PageClose(c) /\ PdfFrame
    \/ \E c \in Callers : Hang(c) /\ PdfFrame
    \/ \E c \in Callers : Timeout(c) /\ PdfFrame
    \/ ServiceClose /\ PdfFrame

SpecPdf == InitPdf /\ [][NextPdf]_vars

\* every await that can settle does settle, and an armed timeout expires; calls
\* arriving, the engine hanging and close() are up to the environment
PdfFairness ==
    \A c \in Callers :
        /\ WF_vars(InitBrowser(c) /\ PdfFrame)
        /\ WF_vars(Launch(c) /\ PdfFrame)
        /\ WF_vars(NewPage(c) /\ PdfFrame)
        /\ WF_vars(SetContent(c) /\ PdfFrame)
        /\ WF_vars(PagePdf(c) /\ PdfFrame)
        /\ WF_vars(PageClose(c) /\ PdfFrame)
        /\ WF_vars(Timeout(c) /\ PdfFrame)

SpecPdfLive == InitPdf /\ [][NextPdf]_vars /\ PdfFairness

\* the context builders on one quotation record
InitBuild ==
    /\ \E machine \in {"crane", "undefined"}, days, quantity, rate, cost \in FieldValues,
          k \in 0..MaxItems :
           bld = [BldIdle EXCEPT !.q = Record(machine, days, quantity, rate, cost, k)]
    /\ fq = FqIdle
    /\ pdf = PdfIdle
    /\ ed = EdIdle
    /\ store = EmptyStore
    /\ colType = "text"
    /\ clock = 1
    /\ sysConfig = NoId
    /\ loadMap = [id \in ReqIds |-> "throw"]
    /\ resp = NoResp
    /\ rp = RepairIdle
    /\ runs = <<>>
    /\ fx = FixIdle

SpecBuild == InitBuild /\ [][BuildContexts]_vars

\* getQuotationWithDetails on one quotation row
InitFetch ==
    /\ LET \* customer_contact as the driver returns it: NULL, a text, or a
           \* decoded object
           ContactCells ==
               {Null, Obj(<<"{", "}">>)} \cup
               {Str(s) : s \in { <<>>, <<"{", "b">>, <<"n", "u", "l", "l">>, <<"1">>,
                                 <<Q, "a", Q>>, <<"[", "]">>, <<"{", "}">>, NamedContact }}
           \* quotation ids: quot_ and a key of one, two or eight characters,
           \* and two ids without an underscore
           QuotationIds ==
               { <<"q", "u", "o", "t", "_", "1">>,
                 <<"q", "u", "o", "t", "_", "z", "z">>,
                 <<"q", "u", "o", "t", "_", "z", "z", "z", "z", "z", "z", "z", "z">>,
                 <<"q", "u", "o", "t", "-", "a", "b", "1">>,
                 <<"q", "1">> }
       IN \E id \in QuotationIds, contact \in ContactCells, name \in {"null", "cn"},
             dbName \in {"null", "dbn"}, email \in {"null", "e@x"} :
              fq = [FqIdle EXCEPT !.row = QuotationRow(id, contact, name, dbName, email)]
    /\ bld = BldIdle
    /\ pdf = PdfIdle
    /\ ed = EdIdle
    /\ store = EmptyStore
    /\ colType = "text"
    /\ clock = 1
    /\ sysConfig = NoId
    /\ loadMap = [id \in ReqIds |-> "throw"]
    /\ resp = NoResp
    /\ rp = RepairIdle
    /\ runs = <<>>
    /\ fx = FixIdle

SpecFetch == InitFetch /\ [][FetchQuotation]_vars

\* the template editor
InitEditor ==
    /\ ed = EdIdle
    /\ fq = FqIdle
    /\ bld = BldIdle
    /\ pdf = PdfIdle
    /\ store = EmptyStore
    /\ colType = "text"
    /\ clock = 1
    /\ sysConfig = NoId
    /\ loadMap = [id \in ReqIds |-> "throw"]
    /\ resp = NoResp
    /\ rp = RepairIdle
    /\ runs = <<>>
    /\ fx = FixIdle

SpecEditor ==
    InitEditor /\ [][addElement \/ deleteElement \/ reorderElements \/ applyTheme \/ undo
                        \/ redo \/ updateElementWithHistory \/ later]_vars

-----------------------------------------------------------------------------
(* Properties of template resolution (specification Spec) *)

ExplicitRequest == resp.templateId # NoId

\* C1: on the preview and iframe-preview endpoints, an explicit templateId that
\* has no row in the store, or whose loaded template carries a different id, is
\* answered 404 (once the quotation itself was fetched) and no document is
\* rendered from any template.
C1_PreviewExplicitMissingIs404 ==
    (/\ resp.endpoint \in {"preview", "iframe"}
     /\ ExplicitRequest
     /\ (resp.templateId \notin Present \/ LoadOutcome(resp.templateId) = "wrong"))
    => /\ resp.rendered = NoTemplate
       /\ (resp.env.qRes # "throw" => resp.status = 404)

C1_Witness ==
    /\ resp.endpoint = "iframe"
    /\ resp.templateId \in Present
    /\ LoadOutcome(resp.templateId) = "wrong"
    /\ resp.env.qRes = "ok" /\ resp.env.connOk /\ resp.env.queryOk
    /\ resp.status = 404

\* C2: on the print and download endpoints, an explicit templateId with no row
\* in the store is answered 404 and never with a rendered document.
C2_PrintDownloadMissingIs404 ==
    (/\ resp.endpoint \in {"print", "pdf"}
     /\ ExplicitRequest
     /\ resp.templateId \notin Present
     /\ resp.env.qRes = "ok")
    => /\ resp.status = 404
       /\ resp.rendered = NoTemplate

\* C3: without an explicit templateId, when system_config names a default
\* template that is loadable, that template is the one resolved and rendered.
C3_ConfiguredDefaultPreferred ==
    (/\ resp.endpoint \in {"print", "preview", "iframe"}
     /\ ~ExplicitRequest
     /\ resp.status = 200
     /\ resp.env.cfgOk
     /\ sysConfig \in Present
     /\ LoadOutcome(sysConfig) = "ok")
    => resp.rendered.id = sysConfig

\* the cases in which getDefaultTemplate cannot use a stored default: the store
\* is unreachable, holds no active default row, or the default row fails to load
DefaultUnavailable(env) ==
    \/ ~env.connOk
    \/ ~env.queryOk
    \/ env.pick = NoId
    \/ LoadOutcome(env.pick) = "throw"

\* C4: default resolution for preview never yields an empty result: whenever the
\* stored default is unavailable, getDefaultTemplate returns the built-in or the
\* emergency template, which has at least one element.
C4_PreviewDefaultNeverEmpty ==
    (/\ resp.endpoint \in {"preview", "iframe"}
     /\ ~ExplicitRequest
     /\ resp.env.qRes = "ok"
     /\ DefaultUnavailable(resp.env))
    => /\ resp.resolved.kind \in {"builtin", "emergency"}
       /\ Len(resp.resolved.elements) >= 1

C4_Witness ==
    /\ resp.endpoint = "preview"
    /\ ~ExplicitRequest
    /\ resp.env.qRes = "ok" /\ resp.env.connOk /\ resp.env.queryOk
    /\ resp.env.pick # NoId
    /\ LoadOutcome(resp.env.pick) = "throw"
    /\ ~resp.env.builderOk
    /\ resp.resolved = EmergencyTemplate

\* C5: the print endpoint called without a templateId does not fail because no
\* configured or stored default can be loaded: it ends with a resolved template.
C5_PrintDefaultFallsThrough ==
    (/\ resp.endpoint = "print"
     /\ ~ExplicitRequest
     /\ resp.env.qRes = "ok"
     /\ resp.env.renderOk)
    => /\ resp.status = 200
       /\ resp.resolved # NoTemplate

-----------------------------------------------------------------------------
(* Properties of the repair pass (specifications SpecRepair and SpecFix) *)

Entries(run) == {run.report[n] : n \in 1..Len(run.report)}
Processed(run) == {e.id : e \in Entries(run)}

\* a column value that is one well-formed encoding: JSON text, not padded and
\* not wrapped in a further pair of quotes
SingleEncoded(cell) ==
    /\ cell.k = "str"
    /\ ValidJson(cell.s)
    /\ Trim(cell.s) = cell.s
    /\ ~IsWrapped(cell.s)

\* a stored column value that needs no repair: a single encoding, read back as
\* text or already decoded by the driver
Normalized(cell) == SingleEncoded(cell) \/ cell.k = "obj"

\* C6: the repair pass is idempotent: a complete run that follows a complete run
\* reports zero changed rows and issues no UPDATE, whatever shapes the fields
\* had before the first run.
C6_RepairIdempotent ==
    \A n \in 2..Len(runs) :
        (runs[n-1].status = 200 /\ runs[n].status = 200)
        => (runs[n].repaired = 0 /\ runs[n].updated = {})

\* C7: a row is written only if one of its four fields changed: a row of four
\* single well-formed encodings gets no UPDATE and changed = false, a row
\* reported unchanged is left as it was, an UPDATE changes some field, and each
\* per-field mutated flag is true exactly when the stored value after the pass
\* differs from the stored value before it.
C7_WriteOnlyIfChanged ==
    \A n \in 1..Len(runs) : \A e \in Entries(runs[n]) :
        LET before == runs[n].pre[e.id]
            after == runs[n].post[e.id]
        IN /\ (\A c \in Columns : Normalized(before[c]))
                => (~e.changed /\ e.id \notin runs[n].updated)
           /\ ~e.changed => after = before
           /\ e.id \in runs[n].updated => \E c \in Columns : after[c] # before[c]
           /\ \A c \in Columns : e.mutated[c] <=> (after[c] # before[c])

\* the empty container of a column: "[]" for elements, "{}" for the others
EmptyText(col) == IF col = "elements" THEN <<"[", "]">> ELSE <<"{", "}">>

\* after a pass the column holds the empty container of its kind
StoresEmptyContainer ==
    /\ fx.out = EmptyText(fx.col)
    /\ fx.raw = WriteCol(fx.ct, EmptyText(fx.col))

\* unrecoverable, read literally: null, an empty or whitespace-only string, the
\* string "[object Object]", a non-string scalar, or a string JSON.parse rejects
UnrecoverableAsStated(raw) ==
    \/ raw.k = "null"
    \/ raw.k \in {"num", "bool"}
    \/ /\ raw.k = "str"
       /\ (Trim(raw.s) = <<>> \/ raw.s = ObjectObjectText \/ ~ValidJson(raw.s))

\* C8 as stated: every unrecoverable value, a string that fails to parse
\* included, is replaced by the empty container of its column.
C8_UnrecoverableStoresEmpty_AsStated ==
    (fx.n >= 1 /\ UnrecoverableAsStated(fx.orig)) => StoresEmptyContainer

\* the text the pass hands to JSON.parse: the trimmed string, or the body of a
\* quote-wrapped bracketed string with \" unescaped
Validated(s) == IF IsWrapped(Trim(s)) THEN Unwrap(Trim(s)) ELSE Trim(s)

UnrecoverableAmended(raw) ==
    \/ raw.k = "null"
    \/ raw.k \in {"num", "bool"}
    \/ /\ raw.k = "str"
       /\ (Trim(raw.s) = <<>> \/ Trim(raw.s) = ObjectObjectText \/ ~ValidJson(Validated(raw.s)))

\* C8: null, an empty or whitespace-only string, "[object Object]", a
\* non-string scalar, and a string whose validated text (the trimmed string, or
\* the unwrapped body of a quote-wrapped bracketed string) fails to parse are
\* replaced by "[]" for elements and by "{}" for layout, settings and branding.
C8_UnrecoverableStoresEmpty ==
    (fx.n >= 1 /\ UnrecoverableAmended(fx.orig)) => StoresEmptyContainer

C8_Witness ==
    /\ fx.n = 1
    /\ fx.col = "layout"
    /\ fx.orig = Str(<<Q, "{", "b", "a", "d", "}", Q>>)
    /\ fx.mutated
    /\ fx.raw = Str(<<"{", "}">>)

\* C9: a pass that stops after k rows leaves those k rows normalized and the
\* others untouched, and a later complete run normalizes the others and reports
\* no change for the k rows.
C9_PartialCompletionSafe ==
    \A n \in 1..Len(runs) :
        runs[n].status = 500 =>
            /\ \A id \in Processed(runs[n]) : \A c \in Columns : Normalized(runs[n].post[id][c])
            /\ \A id \in Present \ Processed(runs[n]) : runs[n].post[id] = runs[n].pre[id]
            /\ (n < Len(runs) /\ runs[n+1].status = 200) =>
                   \A e \in Entries(runs[n+1]) :
                       IF e.id \in Processed(runs[n])
                       THEN ~e.changed
                       ELSE /\ \A c \in Columns : Normalized(runs[n+1].post[e.id][c])
                            /\ e.changed <=> \E c \in Columns : ~Normalized(runs[n+1].pre[e.id][c])

-----------------------------------------------------------------------------
(* Properties of the PDF service (specification SpecPdf) *)

\* C10: generateFromHTML always resolves: a failure at any step (launch, new
\* page, set content, export, page close) gives fallback = true with the print
\* shell around the caller's HTML as data, and fallback = false comes only with
\* the exported document of a call in which no step failed.
C10_GenerateAlwaysResolves ==
    \A c \in Callers :
        LET call == pdf.calls[c] IN
        call.pc = "done" =>
            /\ call.result.state = "resolved"
            /\ call.failedAt # "none" =>
                   /\ call.result.fallback
                   /\ call.result.kind = "html"
                   /\ call.result.body = ShellHead \o call.html \o ShellTail
            /\ ~call.result.fallback =>
                   /\ call.failedAt = "none"
                   /\ call.result.kind = "pdf"
                   /\ call.result.body = call.html

C10_Witness ==
    \E c \in Callers :
        /\ pdf.calls[c].pc = "done"
        /\ pdf.calls[c].failedAt = "pdf"
        /\ pdf.calls[c].result.fallback
        /\ pdf.calls[c].result.kind = "html"

\* C11: while close() has not run, the engine is launched at most once, at most
\* one engine instance is live, and every call holding a handle holds the
\* shared one.
C11_SingleEngine ==
    ~pdf.closed =>
        /\ pdf.launched <= 1
        /\ Cardinality(pdf.live) <= 1
        /\ \A c \in Callers : pdf.calls[c].browser # 0 => pdf.calls[c].browser = pdf.browser

\* C12: every generateFromHTML call that was entered eventually returns, also
\* when the engine hangs at a step.
C12_EveryCallReturns ==
    \A c \in Callers : (pdf.calls[c].pc = "initBrowser") ~> (pdf.calls[c].pc = "done")

\* C13: the export is invoked with the format and the margins the caller passed.
C13_CallerGeometry ==
    \A c \in Callers :
        LET call == pdf.calls[c] IN
        (call.pc = "done" /\ ~call.result.fallback) =>
            /\ call.result.format = Field(call.given, "format")
            /\ call.result.margin = OrElse(Field(call.given, "margin"), Field(call.given, "margins"))

-----------------------------------------------------------------------------
(* Properties of the context builders (specification SpecBuild) *)

\* the row lists the two builders produce
BuiltRows == {bld.preview.items, bld.download}

\* a placeholder row made from the record's machine type and base rate
FromTopLevel(row, q) ==
    /\ row.placeholder
    /\ row.no = 1
    /\ q.machine_type # "undefined" => row.description[1] = q.machine_type
    /\ q.base_rate.t = "number" => (row.rate.fmt # "literal" /\ row.rate.of = q.base_rate)

\* C14: a record with no line items gives exactly one row, numbered 1 and made
\* from the record's machine type and base rate; a record with k >= 1 line
\* items gives exactly k rows, none a placeholder; in both builders.
C14_ItemRows ==
    bld.built =>
        \A rows \in BuiltRows :
            IF Len(bld.q.items) = 0
            THEN Len(rows) = 1 /\ FromTopLevel(rows[1], bld.q)
            ELSE /\ Len(rows) = Len(bld.q.items)
                 /\ \A i \in 1..Len(rows) : rows[i].no = i /\ ~rows[i].placeholder

Finite(x) == x.t = "number"

\* a field value that is missing or cannot be parsed as a number
Unparsable(v) == v.t \in {"NaN", "null", "undefined", "string"}

\* C15: every numeric output of mapQuotationToTemplateData is made from a finite
\* number, and an unparsable or missing cost shows as 0.
C15_NumericOutputsFinite ==
    bld.built =>
        LET ctx == bld.preview IN
        /\ \A i \in 1..Len(ctx.items) :
              /\ Finite(ctx.items[i].quantity)
              /\ Finite(ctx.items[i].rate.of)
              /\ Finite(ctx.items[i].rental.of)
              /\ Finite(ctx.items[i].mobDemob.of)
              /\ Finite(ctx.items[i].riskUsage.of)
              /\ Unparsable(bld.q.mob_demob_cost) => ctx.items[i].mobDemob.of = Fin(0)
        /\ \A f \in DOMAIN ctx.totals : Finite(ctx.totals[f].of)
        /\ Unparsable(bld.q.total_cost) => ctx.totals.total.of = Fin(0)
        /\ Unparsable(bld.q.risk_adjustment) => ctx.totals.riskAdjustment.of = Fin(0)

\* "n day" for n = 1, "n days" for every other n
WellPluralized(d) == d.unit = (IF ToNumber(d.n) = Fin(1) THEN "day" ELSE "days")

\* C16: every duration text the builders emit (real rows, the placeholder row,
\* quotation.duration) reads "n day" when n = 1 and "n days" otherwise.
C16_DurationPlural ==
    bld.built =>
        /\ \A rows \in BuiltRows : \A i \in 1..Len(rows) : WellPluralized(rows[i].duration)
        /\ WellPluralized(bld.preview.duration)

-----------------------------------------------------------------------------
(* Properties of preview delivery (specification Spec) *)

\* a preview request got as far as sending the document or a 304
Delivered == resp.endpoint \in {"preview", "iframe"} /\ resp.status \in {200, 304}

\* the validator of the template this request resolved
ValidatorNow ==
    Etag(EtagSeed(resp.resolved.id, UpdatedAtOf(resp.resolved),
                  MetaDegraded(resp.resolved, resp.req)))

\* C17: the iframe preview answers 304 with an empty body exactly when the
\* request's If-None-Match equals the validator computed for this request from
\* the resolved template, and otherwise 200 with the full HTML; the ETag header
\* carries that validator either way.
C17_IframeConditional ==
    (resp.endpoint = "iframe" /\ Delivered) =>
        /\ resp.out.etag = ValidatorNow
        /\ (resp.status = 304) <=> (resp.req.inm = ValidatorNow)
        /\ resp.status = 304 => (resp.out.kind = "empty" /\ resp.out.document = NoId)
        /\ resp.status = 200 => (resp.out.kind = "html" /\ resp.out.document = resp.resolved.id)

C17_Witness ==
    /\ resp.endpoint = "iframe"
    /\ resp.status = 304
    /\ resp.req.inm = <<"t1", ":", "1", ":", "D">>
    /\ resp.req.degraded
    /\ resp.out.kind = "empty"

\* C18: a preview served at another wall-clock time for the same record, the
\* same stored template and the same request is the same, byte for byte.
C18_PreviewDeterministic ==
    (Delivered /\ resp.status = 200) =>
        \A t \in WallClocks :
            PreviewHandler(resp.endpoint, resp.templateId, resp.env,
                           [resp.req EXCEPT !.now = t]).out = resp.out

\* the response tells the operator that the template is degraded
ExposesDegraded(out) == out.degradedComment \/ out.debugDegraded = "true"

\* C19: a preview response (HTML, JSON or iframe) exposes the degraded state
\* exactly when the resolved template carries degraded metadata.
C19_DegradedExposed ==
    (Delivered /\ resp.status = 200) =>
        (MetaDegraded(resp.resolved, resp.req) <=> ExposesDegraded(resp.out))

-----------------------------------------------------------------------------
(* Properties of getQuotationWithDetails (specification SpecFetch) *)

\* the contact blob gives no customer field: it is no object with fields
ContactUnusable(cell) == ~(cell.k = "str" /\ cell.s = NamedContact)

\* C20: whatever customer_contact holds, getQuotationWithDetails returns the
\* quotation, and with an unusable contact each customer field is taken from
\* the joined customer columns or is its default.
C20_ContactNeverFails ==
    fq.done =>
        /\ ~fq.threw
        /\ ContactUnusable(fq.row.customer_contact) =>
              /\ fq.customer.name =
                    (IF fq.row.customer_name # "null" THEN fq.row.customer_name
                     ELSE IF fq.row.customer_db_name # "null" THEN fq.row.customer_db_name
                     ELSE "Unknown Customer")
              /\ fq.customer.email =
                    (IF fq.row.customer_email # "null" THEN fq.row.customer_email ELSE "")

-----------------------------------------------------------------------------
(* Properties of double-encoded columns (specification SpecFix) *)

\* the column first held the container stringified twice, x being the text
\* of the first JSON.stringify
DoubleEncoded(x) == fx.orig = Str(Stringify(x))

\* C21: a column holding a well-formed container stringified twice holds,
\* after repair, a text that parses in one step to that container.
C21_DoubleEncodedRecovered ==
    \A x \in Containers :
        (fx.n >= 1 /\ DoubleEncoded(x)) => (ValidJson(fx.out) /\ Canon(fx.out, FALSE) = x)

-----------------------------------------------------------------------------
(* The download's data against the preview's (specification SpecBuild) *)

\* the amount a formatted cell shows, whatever its notation; a fixed text
\* stands for itself
Amount(cell) == IF cell.fmt = "literal" THEN cell ELSE ToNumber(cell.of)

\* two item rows show the same data
SameRow(d, p) ==
    /\ d.no = p.no
    /\ d.description = p.description
    /\ ToNumber(d.quantity) = ToNumber(p.quantity)
    /\ ToNumber(d.duration.n) = ToNumber(p.duration.n) /\ d.duration.unit = p.duration.unit
    /\ Amount(d.rate) = Amount(p.rate)
    /\ Amount(d.rental) = Amount(p.rental)
    /\ Amount(d.mobDemob) = Amount(p.mobDemob)
    /\ Amount(d.riskUsage) = Amount(p.riskUsage)

\* C22: for one quotation record the item rows of the HTML handed to the
\* rasterizer equal the item rows of the preview's rendering context.
C22_DownloadEqualsPreview ==
    bld.built =>
        /\ Len(bld.download) = Len(bld.preview.items)
        /\ \A i \in 1..Len(bld.download) : SameRow(bld.download[i], bld.preview.items[i])

-----------------------------------------------------------------------------
(* The iframe validator as a function of the template state *)

\* the state of the template this request resolved: id, updated_at, degraded
ResolvedState ==
    <<resp.resolved.id, UpdatedAtOf(resp.resolved), MetaDegraded(resp.resolved, resp.req)>>

\* C23: a template state that differs from the one this request resolved, in
\* id, in updated_at or in the degraded flag, has another validator than the
\* one this response carries.
C23_ValidatorSeparates ==
    (resp.endpoint = "iframe" /\ Delivered /\ resp.resolved.kind = "stored") =>
        \A id \in TplIds, updated_at \in {"1", "2", "3"}, degraded \in BOOLEAN :
            <<id, updated_at, degraded>> # ResolvedState =>
                Etag(EtagSeed(id, updated_at, degraded)) # resp.out.etag

-----------------------------------------------------------------------------
(* Repair against a concurrent save (specification SpecRepairSave) *)

\* the row holds what the editor saved
HoldsSaved(row) ==
    /\ row.elements = WriteCol(colType, <<"[", Q, "e", Q, "]">>)
    /\ \A c \in Columns \ {"elements"} :
          row[c] = WriteCol(colType, <<"{", Q, "e", Q, ":", "1", "}">>)

\* C24: a save that commits after repair has read its rows and before repair
\* reaches that row is still in the row when the pass has finished.
C24_SaveNotLost ==
    \A n \in 1..Len(runs) :
        runs[n].status = 200 => \A id \in runs[n].saved : HoldsSaved(runs[n].post[id])

-----------------------------------------------------------------------------
(* Default resolution across a repair pass (specification SpecRepair) *)

\* C25: the rows the default query of getDefaultTemplate returns are the same
\* before and after a completed repair pass.
C25_RepairKeepsDefault ==
    \A n \in 1..Len(runs) :
        runs[n].status = 200 => runs[n].defaultsPost = runs[n].defaultsPre

-----------------------------------------------------------------------------
(* The shape of the columns after a repair pass (specification SpecRepair) *)

\* the column value decodes to a container of the kind: an array or an object
Shaped(cell, kind) ==
    IF cell.k = "str" THEN ValidJson(cell.s) /\ JsonKind(cell.s) = kind
    ELSE cell.k = "obj" /\ JsonKind(cell.s) = kind

\* C26: after a completed repair pass, in every stored template elements
\* decodes to an array and layout, settings and branding each decode to an
\* object.
C26_ContainerShaped ==
    \A n \in 1..Len(runs) :
        runs[n].status = 200 =>
            \A id \in Present :
                /\ Shaped(runs[n].post[id].elements, "array")
                /\ \A c \in Columns \ {"elements"} : Shaped(runs[n].post[id][c], "object")

-----------------------------------------------------------------------------
(* Pages of the shared engine handle (specification SpecPdf) *)

\* C27: while the service has not been closed, no page is open whenever no
\* call of generateFromHTML is in flight: every call has closed the page it
\* opened before it returned.
C27_PagesClosed ==
    (~pdf.closed /\ \A c \in Callers : pdf.calls[c].pc \in {"idle", "done"}) => pdf.pages = 0

-----------------------------------------------------------------------------
(* Properties of the editor's history (specification SpecEditor) *)

\* C28: an undo that follows an edit restores the template as it was before
\* that edit, a redo that follows that undo restores the template as it was
\* after the edit, and historyIndex stays within -1 .. history.length - 1.
C28_UndoRedo ==
    /\ ed.phase = "undone" => ed.template = ed.before
    /\ ed.phase = "redone" => ed.template = ed.after
    /\ -1 <= ed.historyIndex /\ ed.historyIndex <= Len(ed.history) - 1

\* C29: when the debounce timeout has fired, the history is the one there was,
\* up to the entry in use, with one snapshot of the current template appended,
\* and historyIndex is at that snapshot.
C29_DebouncedSaveAppends ==
    ed.phase = "fired" =>
        /\ ed.history = Append(SubSeq(ed.preHistory, 1, ed.preIndex + 1), ed.template)
        /\ ed.historyIndex = Len(ed.history) - 1

-----------------------------------------------------------------------------
(* The quotation number across outputs (specification SpecFetch) *)

\* C30: the preview, the print output and the downloaded document show one
\* quotation number for a quotation id, the one generateQuotationNumber
\* derives from the id.
C30_OneQuotationNumber ==
    fq.done =>
        \A output \in DOMAIN fq.numbers :
            fq.numbers[output] = generateQuotationNumber(fq.row.id)

====
